---- MODULE Spec2Model ----
(***************************************************************************)
(* TransientBlock (src/mitransient/transientBlock.py): an N-dimensional    *)
(* accumulation buffer fed by put_ through separable reconstruction        *)
(* filters and read out by develop.                                        *)
(*                                                                         *)
(* Numbers.  Coordinates and radii are fixed-point numbers counting        *)
(* 1/Scale, rounded to float32 where the code computes in float32; UInt32  *)
(* words are taken modulo 2^32.  Numbers beyond TLC's integers are held in *)
(* two limbs.  RayEpsilon has its single-precision value.  Filter weights  *)
(* count 1/WScale, and                                                     *)
(* a buffer entry of an N-dimensional block counts 1/WScale^N (the product *)
(* of N per-axis weights); the box path adds value * WScale^N.  develop's  *)
(* quotient is a reduced fraction <<num, den>>.                            *)
(*                                                                         *)
(* Scope.  border is True (the default of configure_filter), normalize is  *)
(* False (the default of __init__), gamma is False (the default of         *)
(* develop), and set_size keeps the number of axes.                        *)
(***************************************************************************)
EXTENDS Integers, Sequences, FiniteSets, TLC

\* ------------------------------------------------------------ bounds
\* Largest number of put_ calls between two clears.
MaxPuts == 1
\* Number of samples whose processing order SpecOrder permutes.
NumSamples == 2

\* ------------------------------------------------------------ numbers
Scale == 2 * 4
Half == Scale \div 2
\* mitsuba.math.RayEpsilon in single precision: 1500 * 2^-24 = 375 * 2^-22
\* (8.9407e-05). Where it enters, lengths count 1/EpsScale = 2^-22.
EpsScale == 2048 * 2048
RayEpsilon == 375
WScale == 3 * (Scale \div 4)

Floor(a, b) == a \div b
Ceil(a, b) == -((-a) \div b)
Abs(x) == IF x < 0 THEN -x ELSE x
Max(a, b) == IF a > b THEN a ELSE b
Min(a, b) == IF a < b THEN a ELSE b

RECURSIVE Gcd(_, _)
Gcd(a, b) == IF b = 0 THEN a ELSE Gcd(b, a % b)

RECURSIVE SeqSum(_)
SeqSum(s) == IF s = <<>> THEN 0 ELSE Head(s) + SeqSum(Tail(s))

RECURSIVE SeqProd(_)
SeqProd(s) == IF s = <<>> THEN 1 ELSE Head(s) * SeqProd(Tail(s))

RECURSIVE Pow(_, _)
Pow(b, e) == IF e = 0 THEN 1 ELSE b * Pow(b, e - 1)

\* The number of binary digits of x >= 0.
RECURSIVE BitLen(_)
BitLen(x) == IF x = 0 THEN 0 ELSE 1 + BitLen(x \div 2)

\* A function over 1..n as a sequence (TLC then evaluates its entries once).
AsSeq(f) == f \o <<>>

\* F(x), with x computed before F is entered (an argument is otherwise
\* computed where F first uses it, nested inside F's own computation).
Eager(x, F(_)) == CHOOSE r \in {F(y) : y \in {x}} : TRUE

\* s[j+1:] of a Python sequence, j counted from 0.
SliceFrom(s, j) == SubSeq(s, j + 1, Len(s))

\* ------------------------------------------------------------ wide numbers
\* TLC's integers end at 2^31 - 1; the block's UInt32 words, the floats made of
\* them and the driver's sample counts reach 2^32 and beyond. Such a number
\* is held as [top, low], standing for top * Limb + low with 0 <= low < Limb:
\* 4294967295 is [top |-> 131071, low |-> 32767].
Limb == 128 * 256
W(x) == [top |-> x \div Limb, low |-> x % Limb]
WNorm(t, l) == [top |-> t + (l \div Limb), low |-> l % Limb]
WAdd(a, b) == WNorm(a.top + b.top, a.low + b.low)
WSub(a, b) == WNorm(a.top - b.top, a.low - b.low)
WNeg(a) == WNorm(-a.top, -a.low)
WMul(a, b) ==
    WNorm(a.top * b.top * Limb + a.top * b.low + a.low * b.top, a.low * b.low)
WLess(a, b) == a.top < b.top \/ (a.top = b.top /\ a.low < b.low)
WLeq(a, b) == ~WLess(b, a)
WMax(a, b) == IF WLess(a, b) THEN b ELSE a
WMin(a, b) == IF WLess(b, a) THEN b ELSE a
\* floor(a / c) and ceil(a / c) for 0 < c <= Limb.
WFloor(a, c) == [top |-> a.top \div c, low |-> ((a.top % c) * Limb + a.low) \div c]
WCeil(a, c) == WNeg(WFloor(WNeg(a), c))
\* The number itself, when it lies within TLC's integers.
WInt(a) == a.top * Limb + a.low
WSmall(a) == a.top > -Limb /\ a.top < Limb
WSeq(s) == [j \in 1..Len(s) |-> W(s[j])]

\* UInt32 arithmetic is modulo 2^32.
UInt32Mod == WMul(W(65536), W(65536))
MaxUInt32 == WSub(UInt32Mod, W(1))
Mod32(a) == [top |-> a.top % UInt32Mod.top, low |-> a.low]
Add32(a, b) == Mod32(WAdd(a, b))
Mul32(a, b) == Mod32(WMul(a, b))

\* A number (counting 1/Scale) rounded to float32: 24 significant bits, ties
\* to even. A number below 2^24 / Scale on the 1/Scale grid is exact.
Float32(x) ==
    IF x.top >= -512 /\ x.top < 512 THEN x
    ELSE LET neg == x.top < 0
             a == IF neg THEN WNeg(x) ELSE x
             ulp == Pow(2, BitLen(a.top) - 9)
             q == a.low \div ulp
             r == a.low % ulp
             odd == IF ulp = Limb THEN a.top % 2 = 1 ELSE q % 2 = 1
             up == 2 * r > ulp \/ (2 * r = ulp /\ odd)
             rounded == WNorm(a.top, (q + (IF up THEN 1 ELSE 0)) * ulp)
         IN IF neg THEN WNeg(rounded) ELSE rounded

\* An integer as the float32 counting 1/Scale.
ToFloat(n) == Float32(WMul(n, W(Scale)))

\* A float (counting 1/Scale) converted to UInt32: truncation toward zero when
\* the truncated value fits. Otherwise the conversion is undefined and the
\* build decides: "saturate" clamps to the word's range (CUDA cvt.rzi, ARM
\* fcvtzu); "wrap" keeps the low 32 bits of the truncated integer (x86-64
\* scalar, through a 64-bit cvttss2si); "int32" is the vector sequence built
\* on the signed cvttps2dq (AVX2), which keeps the low bits of a negative
\* number that fits int32 and gives 2^31 for every other; "ones" is
\* vcvttps2udq (AVX-512), all bits set.
Trunc(x) == IF x.top >= 0 THEN WFloor(x, Scale) ELSE WCeil(x, Scale)
ToUInt32(x, mode) ==
    LET t == Trunc(x) IN
    IF t.top >= 0 /\ WLess(t, UInt32Mod) THEN t
    ELSE IF mode = "saturate" THEN (IF t.top < 0 THEN W(0) ELSE MaxUInt32)
    ELSE IF mode = "wrap" THEN Mod32(t)
    ELSE IF mode = "ones" THEN MaxUInt32
    ELSE IF t.top < 0 /\ t.top >= -65536 THEN Mod32(t)
    ELSE WMul(W(32768), W(65536))
FpToUiModes == {"saturate", "wrap", "int32", "ones"}

\* ------------------------------------------------------------ filters
\* mitsuba reconstruction filters as the block uses them: radius(),
\* border_size() and eval(x).
BoxFilter == [kind |-> "box", radius |-> Half]
Tent1 == [kind |-> "tent", radius |-> Scale]
Tent2 == [kind |-> "tent", radius |-> 2 * Scale]
\* Kernels whose radius is not a whole number of cells.
Tent15 == [kind |-> "tent", radius |-> Scale + Half]
Tent075 == [kind |-> "tent", radius |-> 3 * (Scale \div 4)]
FilterSet == {BoxFilter, Tent1, Tent2}

radius(f) == f.radius

\* A radius (counting 1/Scale) counting 1/EpsScale.
Fine(r) == r * (EpsScale \div Scale)

\* ceil(radius - 0.5 - 2 eps)
border_size(f) == Ceil(Fine(f.radius) - EpsScale \div 2 - 2 * RayEpsilon, EpsScale)

\* eval(x): the kernel at the float x (counting 1/Scale), the result counting
\* 1/WScale. box: 1 on [-radius, radius); tent: max(0, 1 - |x| / radius).
eval(f, x) ==
    IF ~WSmall(x) THEN 0
    ELSE IF f.kind = "box"
    THEN (IF WInt(x) >= -f.radius /\ WInt(x) < f.radius THEN WScale ELSE 0)
    ELSE Max(0, (WScale * (f.radius - Abs(WInt(x)))) \div f.radius)

\* ceil((radius - 2 eps) * 2) as uint32: the taps per axis.
filter_size(r) == Ceil((Fine(r) - 2 * RayEpsilon) * 2, EpsScale)

\* np.any(filter_radius > 0.5 + eps): the general path is taken.
WidePath(radii) ==
    \E j \in 1..Len(radii) : Fine(radii[j]) > EpsScale \div 2 + RayEpsilon

\* ------------------------------------------------------------ inputs
\* The filter argument of __init__ / configure_filter: None, a bare kernel, or
\* a list of kernels: every list of the right length, and lists of every other
\* length up to N + 1.
NoneArg == [tag |-> "none", fs |-> <<>>]
KernelArg(f) == [tag |-> "kernel", fs |-> <<f>>]
ListArg(fs) == [tag |-> "list", fs |-> fs]
KernelArgs == {KernelArg(f) : f \in FilterSet}
ListArgs(N) ==
    {ListArg(fs) : fs \in [1..N -> FilterSet]}
        \cup {ListArg([j \in 1..L |-> f]) : L \in (0..(N + 1)) \ {N}, f \in FilterSet}
FilterArgs(N) == {NoneArg} \cup KernelArgs \cup ListArgs(N)
\* What an out-of-bounds gather can find behind the buffer: nothing usable
\* (zero, negative, NaN: all fail weight > 0) or a positive number.
Garbage == {0, 1}

\* ------------------------------------------------------------ state
VARIABLES
    m_size,                  \* logical extent per axis
    m_offset,                \* always zero per axis
    m_channel_count,
    m_filter,                \* <<>> is None
    m_border_size,           \* border of the current filters
    m_original_border_size,  \* border saved by the first configure_filter
    m_border_offset,         \* uint32 per axis
    filter_radius,           \* per axis, counting 1/Scale
    m_weights,               \* scratch table, one entry (per lane) per tap
    m_data,                  \* TensorXf: [shape, array]; NoTensor is None
    behind,                  \* what lies in memory behind m_data.array
    fptoui,                  \* the build's out-of-range float -> UInt32
    call,                    \* the last call and its arguments
    ret,                     \* what the last call returned
    err,                     \* the exception the last call raised
    oob,                     \* the last put_ scattered outside m_data.array
    nput,                    \* put_ calls since the last clear
    ndev,                    \* develop calls since any other call
    log,                     \* SpecE2E: the samples put so far
    samples,                 \* SpecOrder: the samples to put
    pending,                 \* SpecOrder: the indices of those not yet put
    origin,                  \* SpecOrder: m_data.array before the first put_
    sensor,                  \* SpecPrepare: the sensor handed to prepare
    spp,                     \* SpecPrepare: the spp argument of the last prepare
    prepare_result           \* SpecPrepare: the list the last prepare returned

block == <<m_size, m_offset, m_channel_count, m_filter, m_border_size,
           m_original_border_size, m_border_offset, filter_radius, m_weights,
           m_data, behind>>
geometry == <<m_size, m_offset, m_channel_count, m_filter, m_border_size,
              m_original_border_size, m_border_offset, filter_radius>>
driver == <<sensor, spp, prepare_result>>
ghosts == <<log, samples, pending, origin, driver>>
vars == <<block, fptoui, call, ret, err, oob, nput, ndev, ghosts>>

NoTensor == [shape |-> <<>>, array |-> <<>>]
NoRet == [kind |-> "none", shape |-> <<>>, array |-> <<>>]
Zeros(n) == [j \in 1..n |-> 0]
Dims == Len(m_size)

Call(op, arg, size, force, raw, batch) ==
    [op |-> op, filter |-> arg, size |-> size, force |-> force, raw |-> raw,
     batch |-> batch]

\* ------------------------------------------------------------ set_size
\* The fields set_size leaves: m_size and m_offset.
set_size(old, size) ==
    IF old = size THEN [m_size |-> old, changed |-> FALSE]
    ELSE [m_size |-> size, changed |-> TRUE]

\* ------------------------------------------------------------ configure_filter
\* The filter list with the isinstance test left out: the argument as given.
FilterListAsGiven(arg, N) == arg.fs

\* The filter list after the isinstance test: a bare kernel on every axis.
FilterList(arg, N) ==
    IF arg.tag = "kernel" THEN [j \in 1..N |-> arg.fs[1]] ELSE arg.fs

\* The two raise statements.
ConfigureRaises(arg, N) ==
    \/ arg.tag = "none"
    \/ N # Len(FilterList(arg, N))

\* m_border_offset with the update of line 71 left out.
BorderOffsetKept(cur, border, N) ==
    IF cur.m_filter = <<>> THEN WSeq(Zeros(N)) ELSE cur.m_border_offset

\* m_border_offset after a successful call. cur is the block's m_filter,
\* m_original_border_size and m_border_offset before the call.
NewBorderOffset(cur, border, N) ==
    IF cur.m_filter = <<>> THEN WSeq(Zeros(N))
    ELSE IF \E j \in 1..N : border[j] # cur.m_original_border_size[j]
         THEN [j \in 1..N |->
                  Mod32(W(cur.m_original_border_size[j] - border[j]))]
         ELSE cur.m_border_offset

NewOriginalBorder(cur, border) ==
    IF cur.m_filter = <<>> THEN border ELSE cur.m_original_border_size

\* The scratch table left as it is.
WeightsKept(cur, width) == cur.m_weights

\* self.m_weights = [Float(0.0)] * width
NewWeights(cur, width) == [i \in 1..width |-> <<0>>]

\* A raise with self.m_filter = filter moved above the checks.
AssignThenRaise(cur, arg) ==
    [err |-> "NameError",
     m_filter |-> arg.fs,
     m_border_size |-> cur.m_border_size,
     m_original_border_size |-> cur.m_original_border_size,
     m_border_offset |-> cur.m_border_offset,
     filter_radius |-> cur.filter_radius,
     m_weights |-> cur.m_weights]

\* What a raise leaves: both come before the first assignment.
Raise(cur, arg) ==
    [err |-> "NameError",
     m_filter |-> cur.m_filter,
     m_border_size |-> cur.m_border_size,
     m_original_border_size |-> cur.m_original_border_size,
     m_border_offset |-> cur.m_border_offset,
     filter_radius |-> cur.filter_radius,
     m_weights |-> cur.m_weights]

configure_filter(cur, arg, N) ==
    IF ConfigureRaises(arg, N)
    THEN Raise(cur, arg)
    ELSE LET filter == FilterList(arg, N)
             border == [j \in 1..N |-> border_size(filter[j])]
             radii == [j \in 1..N |-> radius(filter[j])]
             width == SeqSum([j \in 1..N |-> filter_size(radii[j])])
         IN [err |-> "none",
             m_filter |-> filter,
             m_border_size |-> border,
             m_original_border_size |-> NewOriginalBorder(cur, border),
             m_border_offset |-> NewBorderOffset(cur, border, N),
             filter_radius |-> radii,
             m_weights |-> NewWeights(cur, width)]

\* ------------------------------------------------------------ clear
\* The tensor clear allocates: zeros of shape sizeData + [channel_count].
clear(size, border, original, force, ch) ==
    LET sizeData == [j \in 1..Len(size) |->
                        size[j] + 2 * (IF force THEN border[j] ELSE original[j])]
        width == ch * SeqProd(sizeData)
    IN [shape |-> sizeData \o <<ch>>, array |-> Zeros(width)]

\* ------------------------------------------------------------ put_
\* The fields put_ reads, as one record.
Geo(size, offset, border, original, shift, radii, filter, ch, mode) ==
    [m_size |-> size, m_offset |-> offset, m_border_size |-> border,
     m_original_border_size |-> original, m_border_offset |-> shift,
     filter_radius |-> radii, m_filter |-> filter, m_channel_count |-> ch,
     fptoui |-> mode]

\* size = ArrayXu(m_size) + 2 * ArrayXu(m_original_border_size): UInt32
\* arithmetic on extents far below 2^31, which never wraps.
PutSize(g) ==
    [j \in 1..Len(g.m_size) |-> g.m_size[j] + 2 * g.m_original_border_size[j]]

\* UInt32(dr.prod(size[j+1:])), j counted from 1 here.
Stride(g, j) == Mod32(W(SeqProd(SliceFrom(PutSize(g), j))))

\* pos = pos_ - (offset - (border_size + border_offset) + 0.5), in float32.
BufferPos(g, s) ==
    AsSeq([j \in 1..Len(g.m_size) |->
        LET bs == ToFloat(W(g.m_border_size[j]))
            bo == ToFloat(g.m_border_offset[j])
            off == ToFloat(W(g.m_offset[j]))
            inner == Float32(WAdd(Float32(WSub(off, Float32(WAdd(bs, bo)))), W(Half)))
        IN Float32(WSub(W(s.pos[j]), inner))])

\* One lane of one dr.scatter_reduce call: target index (a UInt32), addend, mask.
Write(idx, val, en) == [idx |-> idx, val |-> val, en |-> en]

\* The index lies in the array.
Inside(array, idx) == WLess(idx, W(Len(array)))

\* dr.scatter_reduce with a plain store in place of the reduction: every lane
\* writes the old entry plus its own value, so of the lanes that target one
\* index only the last one counts.
RECURSIVE StoreLanes(_, _, _, _)
StoreLanes(array, before, writes, l) ==
    IF l > Len(writes) THEN array
    ELSE LET w == writes[l]
         IN StoreLanes(IF w.en /\ Inside(array, w.idx)
                       THEN [array EXCEPT ![WInt(w.idx) + 1] =
                                before[WInt(w.idx) + 1] + w.val]
                       ELSE array,
                       before, writes, l + 1)
ScatterLast(array, writes) == StoreLanes(array, array, writes, 1)

\* dr.scatter_reduce(ReduceOp.Add, array, value, index, mask): every enabled
\* lane adds its value at its index; lanes with the same index all count. A
\* lane whose index lies outside the array changes nothing in it.
RECURSIVE AddLanes(_, _, _)
AddLanes(array, writes, l) ==
    IF l > Len(writes) THEN array
    ELSE LET w == writes[l]
         IN AddLanes(IF w.en /\ Inside(array, w.idx)
                     THEN [array EXCEPT ![WInt(w.idx) + 1] = @ + w.val]
                     ELSE array,
                     writes, l + 1)
scatter_reduce(array, writes) == AddLanes(array, writes, 1)

\* An enabled lane targets an index outside the array.
OutOfBounds(array, writes) ==
    \E l \in 1..Len(writes) : writes[l].en /\ ~Inside(array, writes[l].idx)

\* The scatter_reduce calls from..to of one put_, in the order the code
\* issues them: the first half, then the second half on its result.
RECURSIVE ApplyScatters(_, _, _, _)
ApplyScatters(array, calls, from, to) ==
    IF from > to THEN array
    ELSE IF from = to THEN scatter_reduce(array, calls[from])
    ELSE Eager(ApplyScatters(array, calls, from, (from + to) \div 2),
               LAMBDA half : ApplyScatters(half, calls, (from + to) \div 2 + 1, to))

\* The length of the list value: the same for every lane. With fewer entries
\* than channels, value[k] raises IndexError at the first missing one, after
\* the scatter_reduce calls of the channels before it.
ValueCount(batch) == Len(batch[1].value)
Channels(g, batch) == Min(g.m_channel_count, ValueCount(batch))

\* --- the box path (lines 183-193)
\* lo as floor(pos + 0.5).
BoxLoFloor(g, pos) ==
    AsSeq([j \in 1..Len(g.m_size) |->
        WMul(WFloor(Float32(WAdd(pos[j], W(Half))), Scale), W(Scale))])

\* lo = dr.ceil(pos - 0.5), a float holding an integer (counting 1/Scale).
BoxLo(g, pos) ==
    AsSeq([j \in 1..Len(g.m_size) |->
        WMul(WCeil(Float32(WSub(pos[j], W(Half))), Scale), W(Scale))])

RECURSIVE BoxOffsetFrom(_, _, _)
BoxOffsetFrom(g, lo, j) ==
    IF j = 0 THEN W(0)
    ELSE Add32(BoxOffsetFrom(g, lo, j - 1),
               Mul32(ToUInt32(lo[j], g.fptoui), Stride(g, j)))

\* BoxOffset without offset *= channel_count.
BoxOffsetInCells(g, lo) == BoxOffsetFrom(g, lo, Len(g.m_size))

\* offset: the flat cell index times channel_count, in UInt32.
BoxOffset(g, lo) == Mul32(BoxOffsetFrom(g, lo, Len(g.m_size)), W(g.m_channel_count))

\* (lo >= 0) & (lo < size) on axis j: size as a float.
BoxInside(g, lo, j) ==
    WLeq(W(0), lo[j]) /\ WLess(lo[j], ToFloat(W(PutSize(g)[j])))

\* enabled with the active mask left out.
BoxEnabledUnmasked(g, lo, active) ==
    \A j \in 1..Len(g.m_size) : BoxInside(g, lo, j)

\* enabled = active & dr.all((lo >= 0) & (lo < size))
BoxEnabled(g, lo, active) ==
    active /\ \A j \in 1..Len(g.m_size) : BoxInside(g, lo, j)

\* What the box path computes per lane: the flat offset and the mask.
BoxLane(g, s) ==
    Eager(BufferPos(g, s), LAMBDA pos :
    Eager(BoxLo(g, pos), LAMBDA lo :
        [offset |-> BoxOffset(g, lo), enabled |-> BoxEnabled(g, lo, s.active),
         value |-> s.value]))

\* The scatter_reduce calls of the box path: one per channel.
BoxScatters(g, batch) ==
    Eager(AsSeq([l \in 1..Len(batch) |-> BoxLane(g, batch[l])]), LAMBDA lane :
        [k \in 1..Channels(g, batch) |->
            AsSeq([l \in 1..Len(lane) |->
                Write(Add32(lane[l].offset, W(k - 1)),
                      lane[l].value[k] * Pow(WScale, Len(g.m_size)),
                      lane[l].enabled)])])

\* --- the general path (lines 114-181)
\* lo as floor(pos - radius) + 1: the first cell strictly above pos - radius.
LoFloatAbove(g, pos) ==
    [j \in 1..Len(g.m_size) |->
        WMax(WMul(WAdd(WFloor(Float32(WSub(pos[j], W(g.filter_radius[j]))), Scale),
                       W(1)),
                  W(Scale)),
             W(0))]

\* lo and hi as the floats of lines 115-116, counting 1/Scale.
LoFloat(g, pos) ==
    [j \in 1..Len(g.m_size) |->
        WMax(WMul(WCeil(Float32(WSub(pos[j], W(g.filter_radius[j]))), Scale),
                  W(Scale)),
             W(0))]

HiFloat(g, pos) ==
    [j \in 1..Len(g.m_size) |->
        WMin(WMul(WFloor(Float32(WAdd(pos[j], W(g.filter_radius[j]))), Scale),
                  W(Scale)),
             Float32(WSub(ToFloat(W(PutSize(g)[j])),
                          Float32(WAdd(W(Scale), ToFloat(g.m_border_offset[j]))))))]

\* lo = ArrayXu(lo), hi = ArrayXu(hi)
Lo(g, pos) == AsSeq([j \in 1..Len(g.m_size) |-> ToUInt32(LoFloat(g, pos)[j], g.fptoui)])
Hi(g, pos) == AsSeq([j \in 1..Len(g.m_size) |-> ToUInt32(HiFloat(g, pos)[j], g.fptoui)])

\* n: the taps per axis.
TapCounts(g) == AsSeq([j \in 1..Len(g.m_filter) |-> filter_size(g.filter_radius[j])])

\* base = lo - pos: the UInt32 lo as a float, minus pos.
Base(g, pos, lo) ==
    AsSeq([j \in 1..Len(g.m_size) |-> Float32(WSub(ToFloat(lo[j]), pos[j]))])

\* m_weights[base_index + i] = m_filter[j].eval(UInt32(base[j]) + i), i from 0.
AxisWeight(g, basej, j, i) ==
    LET p == Add32(ToUInt32(basej, g.fptoui), W(i))
    IN eval(g.m_filter[j], ToFloat(p))

\* What the general path computes per lane before the tap loop: lo, hi and
\* the weights w[j][i + 1] of tap i of axis j.
Lane(g, s) ==
    Eager(BufferPos(g, s), LAMBDA pos :
    Eager(Lo(g, pos), LAMBDA lo :
    Eager(Base(g, pos, lo), LAMBDA base :
    Eager(TapCounts(g), LAMBDA n :
        [lo |-> lo, hi |-> Hi(g, pos), active |-> s.active, value |-> s.value,
         w |-> AsSeq([j \in 1..Len(g.m_filter) |->
                        AsSeq([i \in 1..n[j] |-> AxisWeight(g, base[j], j, i - 1)])])]))))

\* The axis and the tap (from 0) of entry x (from 1) of the flat table m_weights.
RECURSIVE TableAxis(_, _, _)
TableAxis(n, x, j) == IF x <= n[j] THEN j ELSE TableAxis(n, x - n[j], j + 1)
RECURSIVE TableTap(_, _, _)
TableTap(n, x, j) == IF x <= n[j] THEN x - 1 ELSE TableTap(n, x - n[j], j + 1)

\* The scratch table after the precomputation loop: per entry one weight per lane.
Weights(g, lane) ==
    LET n == TapCounts(g)
    IN [x \in 1..SeqSum(n) |->
          [l \in 1..Len(lane) |-> lane[l].w[TableAxis(n, x, 1)][TableTap(n, x, 1) + 1]]]

\* The update without the carry: the loop ends when the first digit wraps.
CounterStepFirstDigit(idxs, n, j) ==
    IF idxs[1] + 1 < n[1]
    THEN [idxs |-> [idxs EXCEPT ![1] = idxs[1] + 1], done |-> FALSE]
    ELSE [idxs |-> idxs, done |-> TRUE]

\* The update of the mixed-radix counter (lines 173-181): add one at digit j,
\* carry while the digit wraps; done when every digit wrapped.
RECURSIVE CounterStep(_, _, _)
CounterStep(idxs, n, j) ==
    IF j > Len(n) THEN [idxs |-> idxs, done |-> TRUE]
    ELSE IF idxs[j] + 1 < n[j]
         THEN [idxs |-> [idxs EXCEPT ![j] = idxs[j] + 1], done |-> FALSE]
         ELSE CounterStep([idxs EXCEPT ![j] = 0], n, j + 1)

\* The index tuples the while loop visits, in order, from idxs on.
RECURSIVE TapSeq(_, _)
TapSeq(idxs, n) ==
    LET u == CounterStep(idxs, n, 1)
    IN IF u.done THEN <<idxs>> ELSE <<idxs>> \o TapSeq(u.idxs, n)

\* idxs[j] + lo[j], in UInt32.
TapCell(lo, idxs, j) == Add32(W(idxs[j]), lo[j])

\* offset: the flat cell index of the tap times channel_count, in UInt32.
RECURSIVE TapOffsetFrom(_, _, _, _)
TapOffsetFrom(g, lo, idxs, j) ==
    IF j = 0 THEN W(0)
    ELSE Add32(TapOffsetFrom(g, lo, idxs, j - 1),
               Mul32(TapCell(lo, idxs, j), Stride(g, j)))

TapOffset(g, lo, idxs) ==
    Mul32(TapOffsetFrom(g, lo, idxs, Len(g.m_filter)), W(g.m_channel_count))

\* enabled = Mask(active), and per axis (idxs[j] + lo[j]) <= hi[j]
TapEnabled(lo, hi, idxs, active) ==
    active /\ \A j \in 1..Len(lo) : WLeq(TapCell(lo, idxs, j), hi[j])

\* weigth: the product of the per-axis weights of the tap, counting 1/WScale^N.
TapWeight(w, idxs) == SeqProd([j \in 1..Len(w) |-> w[j][idxs[j] + 1]])

\* The scatter_reduce calls of the general path: per visited tap, per channel;
\* when value is too short, those of the first tap before the IndexError.
TapScatters(g, lane) ==
    LET ch == g.m_channel_count
        given == Len(lane[1].value)
    IN Eager(TapSeq(Zeros(Len(g.m_filter)), TapCounts(g)), LAMBDA taps :
       Eager(AsSeq([t \in 1..Len(taps) |->
                AsSeq([l \in 1..Len(lane) |->
                    [offset |-> TapOffset(g, lane[l].lo, taps[t]),
                     weigth |-> TapWeight(lane[l].w, taps[t]),
                     enabled |-> TapEnabled(lane[l].lo, lane[l].hi, taps[t],
                                            lane[l].active)]])]),
         LAMBDA tap :
           [c \in 1..(IF given < ch THEN given ELSE Len(taps) * ch) |->
              LET t == ((c - 1) \div ch) + 1
                  k == ((c - 1) % ch) + 1
              IN AsSeq([l \in 1..Len(lane) |->
                    Write(Add32(tap[t][l].offset, W(k - 1)),
                          lane[l].value[k] * tap[t][l].weigth,
                          tap[t][l].enabled)])]))

\* put_: the array and the scratch table it leaves, whether a scatter left the
\* array, the exception it raised and the mask it returns.
put_(g, array, weights, batch) ==
    LET wide == WidePath(g.filter_radius)
    IN Eager(IF wide THEN AsSeq([l \in 1..Len(batch) |-> Lane(g, batch[l])]) ELSE <<>>,
         LAMBDA lane :
       Eager(AsSeq(IF wide THEN TapScatters(g, lane) ELSE BoxScatters(g, batch)),
         LAMBDA calls :
           [array |-> ApplyScatters(array, calls, 1, Len(calls)),
            m_weights |-> IF wide THEN Weights(g, lane) ELSE weights,
            oob |-> \E c \in 1..Len(calls) : OutOfBounds(array, calls[c]),
            err |-> IF ValueCount(batch) < g.m_channel_count
                    THEN "IndexError" ELSE "none",
            ret |-> [l \in 1..Len(batch) |-> batch[l].active]]))

\* ------------------------------------------------------------ develop
\* A float quotient: a reduced fraction <<num, den>>; x / 0 is <<1, 0>> (Inf)
\* and 0 / 0 is <<0, 0>> (NaN).
FracZero == <<0, 1>>
Divide(v, w) ==
    IF w = 0 THEN (IF v = 0 THEN <<0, 0>> ELSE <<1, 0>>)
    ELSE LET d == Gcd(Abs(v), Abs(w))
             sgn == IF w < 0 THEN -1 ELSE 1
         IN <<(sgn * v) \div d, Abs(w) \div d>>

\* values & mask: a masked-out float is 0.0.
Masked(x, m) == IF m THEN x ELSE FracZero

\* (values / weight) & (weight > 0.0)
MaskedQuotient(v, w) == Masked(Divide(v, w), w > 0)

\* dr.gather(Float, array, index), index counted from 0: behind the array it
\* reads whatever lies there.
Gather(array, index, after) ==
    IF index < Len(array) THEN array[index + 1] ELSE after

\* The flat index of a multi-index (counted from 0) in a row-major shape, and back.
Flatten(idx, shape) ==
    SeqSum(AsSeq([j \in 1..Len(idx) |-> idx[j] * SeqProd(SliceFrom(shape, j))]))

Unflatten(o, shape) ==
    AsSeq([j \in 1..Len(shape) |-> (o \div SeqProd(SliceFrom(shape, j))) % shape[j]])

\* np.s_[:] if bi == 0 else np.s_[bi:-bi], on an axis of length n.
CropStart(n, bi) == IF bi = 0 THEN 0 ELSE Min(bi, n)
CropStop(n, bi) == IF bi = 0 THEN n ELSE Max(n - bi, 0)
CropLen(n, bi) == Max(CropStop(n, bi) - CropStart(n, bi), 0)

\* res[crop_size]: the leading axes sliced, the channel axis whole.
Crop(t, original) ==
    LET N == Len(original)
    IN Eager(AsSeq([j \in 1..Len(t.shape) |->
                      IF j <= N THEN CropLen(t.shape[j], original[j]) ELSE t.shape[j]]),
         LAMBDA shape :
       Eager(AsSeq([j \in 1..Len(t.shape) |->
                      IF j <= N THEN CropStart(t.shape[j], original[j]) ELSE 0]),
         LAMBDA start :
           [shape |-> shape,
            array |-> AsSeq([o \in 1..SeqProd(shape) |->
                        LET at == Unflatten(o - 1, shape)
                            from == [j \in 1..Len(shape) |-> at[j] + start[j]]
                        IN t.array[Flatten(from, t.shape) + 1]])]))

\* Lines 203-220: the divided tensor before the crop.
Divided(data, after) ==
    LET rank == Len(data.shape)
        pixel_count == SeqProd(SubSeq(data.shape, 1, rank - 1))
        ch == data.shape[rank]
        target_ch == ch - 2
    IN [shape |-> SubSeq(data.shape, 1, rank - 1) \o <<target_ch>>,
        array |-> AsSeq([x \in 1..(pixel_count * target_ch) |->
                     LET i == x - 1
                         i_channel == i % target_ch
                         weight_idx == (i \div target_ch) * ch + 4
                         values_idx == (i \div target_ch) * ch + i_channel
                     IN MaskedQuotient(Gather(data.array, values_idx, after),
                                       Gather(data.array, weight_idx, after))])]

develop(data, after, original, raw) ==
    IF raw THEN [kind |-> "raw", shape |-> data.shape, array |-> data.array]
    ELSE Eager(Divided(data, after), LAMBDA res :
         Eager(Crop(res, original), LAMBDA cropped :
             [kind |-> "tensor", shape |-> cropped.shape, array |-> cropped.array]))

\* ------------------------------------------------------------ samples
\* Sample coordinates of an axis of extent n: every multiple of 1/2 from
\* PosMargin below the logical window to PosMargin above it (pixel centres,
\* cell edges, positions in the border).
PosMargin == Half
Coords(n) == {Half * i : i \in (-(PosMargin \div Half))..((n * Scale + PosMargin) \div Half)}
Positions(size) == {p \in [1..Len(size) -> UNION {Coords(size[j]) : j \in 1..Len(size)}] :
                      \A j \in 1..Len(size) : p[j] \in Coords(size[j])}

\* values = [rgb[0], rgb[1], rgb[2], alpha, 1.0] (line 98): put hands put_
\* five entries whatever channel_count is.
values(rgb, alpha) == <<rgb[1], rgb[2], rgb[3], alpha, 1>>
ChannelValues(ch) == {values(<<4, 3, 2>>, 1)}
Samples(size, ch) ==
    {[pos |-> p, value |-> v, active |-> a] :
        p \in Positions(size), v \in ChannelValues(ch), a \in BOOLEAN}

NoBatch == <<>>
NoSize == <<>>

\* ------------------------------------------------------------ __init__
\* The fields before configure_filter has run (line 25: m_filter = None).
Fresh == [m_filter |-> <<>>, m_border_size |-> <<>>,
          m_original_border_size |-> <<>>, m_border_offset |-> <<>>,
          filter_radius |-> <<>>, m_weights |-> <<>>]

\* __init__(size, channel_count, filter): set_size, configure_filter, clear.
\* When configure_filter raises, clear never runs and m_data stays None.
Constructed(size, ch, arg, mode, after) ==
    LET c == configure_filter(Fresh, arg, Len(size))
    IN /\ m_size = size
       /\ m_offset = Zeros(Len(size))
       /\ m_channel_count = ch
       /\ m_filter = c.m_filter
       /\ m_border_size = c.m_border_size
       /\ m_original_border_size = c.m_original_border_size
       /\ m_border_offset = c.m_border_offset
       /\ filter_radius = c.filter_radius
       /\ m_weights = c.m_weights
       /\ m_data = IF c.err = "none"
                   THEN clear(size, c.m_border_size, c.m_original_border_size, FALSE, ch)
                   ELSE NoTensor
       /\ behind = IF c.err = "none" THEN after ELSE 0
       /\ fptoui = mode
       /\ call = Call("__init__", arg, size, FALSE, FALSE, NoBatch)
       /\ ret = NoRet
       /\ err = c.err
       /\ oob = FALSE
       /\ nput = 0
       /\ ndev = 0

\* The variables a specification does not use.
NoSensor == [kind |-> "none"]
NoDriver == sensor = NoSensor /\ spp = 0 /\ prepare_result = <<>>
NoGhosts == log = <<>> /\ samples = <<>> /\ pending = {} /\ origin = <<>> /\ NoDriver

\* The object exists: __init__ returned.
Alive == m_filter # <<>>

Current == [m_filter |-> m_filter, m_border_size |-> m_border_size,
            m_original_border_size |-> m_original_border_size,
            m_border_offset |-> m_border_offset,
            filter_radius |-> filter_radius, m_weights |-> m_weights]

CurrentGeo == Geo(m_size, m_offset, m_border_size, m_original_border_size,
                  m_border_offset, filter_radius, m_filter, m_channel_count, fptoui)

\* ------------------------------------------------------------ actions
SetSize(size) ==
    /\ Alive
    /\ Len(size) = Dims
    /\ m_size' = set_size(m_size, size).m_size
    /\ m_offset' = IF set_size(m_size, size).changed THEN Zeros(Len(size)) ELSE m_offset
    /\ call' = Call("set_size", NoneArg, size, FALSE, FALSE, NoBatch)
    /\ ret' = NoRet /\ err' = "none" /\ oob' = FALSE /\ ndev' = 0
    /\ UNCHANGED <<m_channel_count, m_filter, m_border_size, m_original_border_size,
                   m_border_offset, filter_radius, m_weights, m_data, behind,
                   fptoui, nput>>

Clear(force, after) ==
    /\ Alive
    /\ m_data' = clear(m_size, m_border_size, m_original_border_size, force,
                       m_channel_count)
    /\ behind' = after
    /\ call' = Call("clear", NoneArg, NoSize, force, FALSE, NoBatch)
    /\ ret' = NoRet /\ err' = "none" /\ oob' = FALSE /\ ndev' = 0 /\ nput' = 0
    /\ UNCHANGED <<geometry, m_weights, fptoui>>

Configure(arg) ==
    /\ Alive
    /\ LET c == configure_filter(Current, arg, Dims)
       IN /\ m_filter' = c.m_filter
          /\ m_border_size' = c.m_border_size
          /\ m_original_border_size' = c.m_original_border_size
          /\ m_border_offset' = c.m_border_offset
          /\ filter_radius' = c.filter_radius
          /\ m_weights' = c.m_weights
          /\ err' = c.err
    /\ call' = Call("configure_filter", arg, NoSize, FALSE, FALSE, NoBatch)
    /\ ret' = NoRet /\ oob' = FALSE /\ ndev' = 0
    /\ UNCHANGED <<m_size, m_offset, m_channel_count, m_data, behind, fptoui, nput>>

Put(batch) ==
    /\ Alive
    /\ nput < MaxPuts
    /\ LET r == put_(CurrentGeo, m_data.array, m_weights, batch)
       IN /\ m_data' = [shape |-> m_data.shape, array |-> r.array]
          /\ m_weights' = r.m_weights
          /\ oob' = r.oob
          /\ err' = r.err
          /\ ret' = IF r.err = "none"
                    THEN [kind |-> "mask", shape |-> <<>>, array |-> r.ret]
                    ELSE NoRet
    /\ call' = Call("put_", NoneArg, NoSize, FALSE, FALSE, batch)
    /\ ndev' = 0 /\ nput' = nput + 1
    /\ UNCHANGED <<geometry, behind, fptoui>>

\* develop consuming the buffer: it reads m_data and then clears it.
DevelopAndClear(raw) ==
    /\ Alive
    /\ ret' = develop(m_data, behind, m_original_border_size, raw)
    /\ m_data' = [shape |-> m_data.shape, array |-> Zeros(Len(m_data.array))]
    /\ call' = Call("develop", NoneArg, NoSize, FALSE, raw, NoBatch)
    /\ err' = "none" /\ oob' = FALSE /\ ndev' = Min(ndev + 1, 2)
    /\ UNCHANGED <<geometry, m_weights, behind, fptoui, nput>>

Develop(raw) ==
    /\ Alive
    /\ ret' = develop(m_data, behind, m_original_border_size, raw)
    /\ call' = Call("develop", NoneArg, NoSize, FALSE, raw, NoBatch)
    /\ err' = "none" /\ oob' = FALSE /\ ndev' = Min(ndev + 1, 2)
    /\ UNCHANGED <<block, fptoui, nput>>

\* ------------------------------------------------------------ Spec
\* The life of one block of the transient film (one axis, five channels):
\* any construction, then any calls.
Sizes == {<<2>>, <<3>>}
BlockChannels == 5

Init ==
    /\ \E size \in Sizes, mode \in FpToUiModes :
         \E arg \in {NoneArg} \cup KernelArgs :
            Constructed(size, BlockChannels, arg, mode, 0)
    /\ NoGhosts

DoSetSize == \E size \in Sizes : SetSize(size) /\ UNCHANGED ghosts
DoClear == \E force \in BOOLEAN : Clear(force, 0) /\ UNCHANGED ghosts
DoConfigure == \E arg \in {NoneArg} \cup KernelArgs : Configure(arg) /\ UNCHANGED ghosts
\* The samples of one put_: every active one, and an inactive one at the
\* centre of the first cell.
BlockSamples(size, ch) ==
    {s \in Samples(size, ch) : s.active \/ \A j \in 1..Len(size) : s.pos[j] = Half}
DoPut == \E s \in BlockSamples(m_size, m_channel_count) : Put(<<s>>) /\ UNCHANGED ghosts
DoDevelop == \E raw \in BOOLEAN : Develop(raw) /\ UNCHANGED ghosts

Next == DoSetSize \/ DoClear \/ DoConfigure \/ DoPut \/ DoDevelop

Spec == Init /\ [][Next]_vars

\* ------------------------------------------------------------ SpecFixed
\* A block of two cells whose dimensions never change: configure with a
\* kernel, clear, put and develop only.
FixedSize == <<2>>

InitFixed ==
    /\ \E mode \in FpToUiModes, arg \in KernelArgs :
         Constructed(FixedSize, BlockChannels, arg, mode, 0)
    /\ NoGhosts

FixedConfigure == \E arg \in KernelArgs : Configure(arg) /\ UNCHANGED ghosts

NextFixed == DoClear \/ FixedConfigure \/ DoPut \/ DoDevelop

SpecFixed == InitFixed /\ [][NextFixed]_vars

\* ------------------------------------------------------------ SpecConfig
\* Configuration alone, on blocks of one and two axes, with every filter
\* argument: construction, configure_filter, clear.
ConfigSizes == {<<2>>, <<2, 2>>}

InitConfig ==
    /\ \E size \in ConfigSizes :
         \E arg \in FilterArgs(Len(size)) :
            Constructed(size, BlockChannels, arg, "saturate", 0)
    /\ NoGhosts

CfgConfigure == \E arg \in FilterArgs(Dims) : Configure(arg) /\ UNCHANGED ghosts
CfgClear == \E force \in BOOLEAN : Clear(force, 0) /\ UNCHANGED ghosts

NextConfig == CfgConfigure \/ CfgClear

SpecConfig == InitConfig /\ [][NextConfig]_vars

\* ------------------------------------------------------------ SpecChannels
\* Blocks of several channel counts: construction, put, clear, develop.
ChannelCounts == {3, 4, 5, 6}
\* develop gathers at most index 4 of the last cell: behind the array when
\* channel_count < 5.
GarbageFor(ch) == IF ch < 5 THEN Garbage ELSE {0}

InitChannels ==
    /\ \E ch \in ChannelCounts, mode \in FpToUiModes, arg \in KernelArgs :
         \E after \in GarbageFor(ch) : Constructed(<<2>>, ch, arg, mode, after)
    /\ NoGhosts

ChPut == \E s \in Samples(m_size, m_channel_count) : Put(<<s>>) /\ UNCHANGED ghosts
ChClear == \E after \in GarbageFor(m_channel_count) : Clear(FALSE, after) /\ UNCHANGED ghosts
ChDevelop == \E raw \in BOOLEAN : Develop(raw) /\ UNCHANGED ghosts

NextChannels == ChPut \/ ChClear \/ ChDevelop

SpecChannels == InitChannels /\ [][NextChannels]_vars

\* ------------------------------------------------------------ SpecE2E
\* A block of dimensions [4, 4, 3] with three channels (value, alpha, weight)
\* and box filters: single samples at cell centres, then develop.
E2ESize == <<4, 4, 3>>
E2EChannels == 1 + 2
E2ESamples ==
    {[pos |-> <<x * Scale + Half, y * Scale + Half, t * Scale + Half>>,
      value |-> <<2, 1, 1>>, active |-> TRUE] :
        x \in 0..3, y \in 0..3, t \in 0..2}

InitE2E ==
    /\ \E mode \in FpToUiModes, after \in Garbage :
         Constructed(E2ESize, E2EChannels, KernelArg(BoxFilter), mode, after)
    /\ log = <<>> /\ samples = <<>> /\ pending = {} /\ origin = <<>>
    /\ NoDriver

E2EPut ==
    \E s \in E2ESamples :
        /\ Put(<<s>>)
        /\ log' = Append(log, s)
        /\ UNCHANGED <<samples, pending, origin, driver>>
E2EDevelop == Develop(FALSE) /\ UNCHANGED ghosts

NextE2E == E2EPut \/ E2EDevelop

SpecE2E == InitE2E /\ [][NextE2E]_vars

\* ------------------------------------------------------------ SpecResize
\* A block whose dimensions change: every set_size gives a size other than
\* the current one; configure_filter and clear as in Spec.
ResizeSetSize == \E size \in Sizes \ {m_size} : SetSize(size) /\ UNCHANGED ghosts

NextResize == ResizeSetSize \/ DoConfigure \/ DoClear

SpecResize == Init /\ [][NextResize]_vars

\* ------------------------------------------------------------ SpecTaps
\* Blocks of one and two axes with any kernel per axis, among them those of
\* radius 0.75 and 1.5: construction, put_ of one sample, clear. The samples lie on
\* cell centres, on cell edges, between them, and outside the buffer on both
\* sides.
TapFilters(N) == IF N = 1 THEN FilterSet \cup {Tent15, Tent075} ELSE {BoxFilter, Tent1, Tent15}
TapSizes == {<<2>>, <<2, 2>>}
Quarter == Scale \div 4
TapCoords(N) ==
    IF N = 1
    THEN {Quarter * i : i \in (-3 * 4)..(5 * 4)}
    ELSE {-Quarter, Half, Scale, 18 * Quarter}
\* Every active sample, and an inactive one at the centre of the first cell.
TapSamples(size, ch) ==
    {s \in {[pos |-> p, value |-> v, active |-> a] :
                p \in [1..Len(size) -> TapCoords(Len(size))],
                v \in ChannelValues(ch), a \in BOOLEAN} :
        s.active \/ \A j \in 1..Len(size) : s.pos[j] = Half}

InitTaps ==
    /\ \E size \in TapSizes, mode \in FpToUiModes :
         \E fs \in [1..Len(size) -> TapFilters(Len(size))] :
            Constructed(size, BlockChannels, ListArg(fs), mode, 0)
    /\ NoGhosts

TapsPut == \E s \in TapSamples(m_size, m_channel_count) : Put(<<s>>) /\ UNCHANGED ghosts
TapsClear == Clear(FALSE, 0) /\ UNCHANGED ghosts

NextTaps == TapsPut \/ TapsClear

SpecTaps == InitTaps /\ [][NextTaps]_vars

\* ------------------------------------------------------------ SpecOrder
\* NumSamples samples handed to one block in every order and every split into
\* put_ calls: each call takes any sequence of samples not yet put.
OrderSizes == {<<3>>}
\* Positions on the axis of the block: the two edges of the window, 0.0 and
\* 3.0, and the centre of its first cell.
OrderCoords == {0, Half, 3 * Scale}
OrderSamples(size, ch) ==
    {s \in BlockSamples(size, ch) : \A j \in 1..Len(size) : s.pos[j] \in OrderCoords}

\* The sequences without repetition over the set S.
RECURSIVE Arrangements(_)
Arrangements(S) ==
    {<<>>} \cup UNION {{<<x>> \o a : a \in Arrangements(S \ {x})} : x \in S}

InitOrder ==
    /\ \E size \in OrderSizes, mode \in FpToUiModes, arg \in KernelArgs :
         Constructed(size, BlockChannels, arg, mode, 0)
    /\ samples \in [1..NumSamples -> OrderSamples(m_size, m_channel_count)]
    /\ pending = 1..NumSamples
    /\ origin = m_data.array
    /\ log = <<>>
    /\ NoDriver

OrderPut ==
    \E ids \in Arrangements(pending) \ {<<>>} :
        /\ nput' = 0
        /\ pending' = pending \ {ids[i] : i \in 1..Len(ids)}
        /\ LET batch == [i \in 1..Len(ids) |-> samples[ids[i]]]
               r == put_(CurrentGeo, m_data.array, m_weights, batch)
           IN /\ m_data' = [shape |-> m_data.shape, array |-> r.array]
              /\ m_weights' = r.m_weights
              /\ oob' = r.oob
              /\ err' = r.err
              /\ ret' = IF r.err = "none"
                        THEN [kind |-> "mask", shape |-> <<>>, array |-> r.ret]
                        ELSE NoRet
              /\ call' = Call("put_", NoneArg, NoSize, FALSE, FALSE, batch)
        /\ ndev' = 0
        /\ UNCHANGED <<geometry, behind, fptoui, log, samples, origin, driver>>

NextOrder == OrderPut

SpecOrder == InitOrder /\ [][NextOrder]_vars

\* ------------------------------------------------------------ prepare
\* The driver's prepare (integrators/common.py). The counts of the driver are
\* Python integers, which never wrap: wide numbers here. IndexSpace is 2**32.
IndexSpace == UInt32Mod

\* film.crop_size(), widened by twice the border of the film's filter when
\* the film samples its border (lines 66-69 and 94-96).
film_size(s) ==
    IF s.sample_border
    THEN [j \in 1..Len(s.crop_size) |-> s.crop_size[j] + 2 * s.border_size]
    ELSE s.crop_size

\* dr.prod(film_size), of the two extents of a film.
FilmCells(s) == WMul(W(film_size(s)[1]), W(film_size(s)[2]))

\* The samples per pixel of the call: spp = 0 stands for the count of the
\* sensor's sampler (lines 60-63 and 99-100; an independent sampler keeps
\* the count it is given).
sample_count(s, n) == IF n # 0 THEN n ELSE s.sample_count

\* One entry of the returned list: the sampler with its sample count and the
\* wavefront size it was seeded with (lines 61-64 and 80, 127-129), and the
\* number returned next to it. The seed itself is left out.
Pass(count, wavefront_size, returned) ==
    [sample_count |-> count, wavefront_size |-> wavefront_size, spp |-> returned]

\* sampler.seed(seed, wavefront_size) (lines 80 and 129) is a method of the
\* sensor's sampler, whose code is not part of the package. What it does with
\* a wavefront size above 2**32 - 1 is a property of the sampler handed in:
\* a seed that takes the size as a 32-bit unsigned integer refuses it with a
\* TypeError, a seed that takes any integer accepts it.
SeedAccepts(s, wavefront_size) ==
    ~s.seed_uint32 \/ WLeq(wavefront_size, MaxUInt32)

\* _prepare_los, as the one-element list prepare makes of it (line 167). The
\* test of line 73 lets a wavefront of exactly 2**32 through to the seed of
\* line 80; when the seed raises nothing is returned.
prepare_los(s, n) ==
    LET count == sample_count(s, n)
        wavefront_size == WMul(FilmCells(s), W(count))
    IN  IF WLess(IndexSpace, wavefront_size)
        THEN [err |-> "Exception", result |-> <<>>]
        ELSE IF ~SeedAccepts(s, wavefront_size)
        THEN [err |-> "TypeError", result |-> <<>>]
        ELSE [err |-> "none", result |-> <<Pass(count, wavefront_size, count)>>]

\* int((2**32 - 1) / dr.prod(film_size)) (line 104): the float quotient of
\* two integers below 2**53, truncated. Its fraction is 0 or at least
\* 1 / cells, far above the rounding of the division, so this is the floor
\* of (2 * Int32Max + 1) / cells, for a film of two cells or more.
Int32Max == 2147483647
spp_per_pass(cells) ==
    IF cells.top < Limb
    THEN LET c == WInt(cells)
         IN 2 * (Int32Max \div c) + (2 * (Int32Max % c) + 1) \div c
    ELSE Cardinality({k \in 1..3 : WLeq(WMul(cells, W(k)), MaxUInt32)})

\* The sample count of pass i, from 0 (lines 122-125).
spp_per_pass_i(count, per, num_passes, i) ==
    IF count % per # 0 /\ i = num_passes - 1 THEN count % per ELSE per

\* _prepare_nlos. The message of line 106 formats the size vector with %i,
\* so that what is raised there is a TypeError.
prepare_nlos(s, n) ==
    LET cells == FilmCells(s)
        count == sample_count(s, n)
        per == spp_per_pass(cells)
    IN  IF per = 0
        THEN [err |-> "TypeError", result |-> <<>>]
        ELSE LET needs_remainder == IF count % per # 0 THEN 1 ELSE 0
                 num_passes == (count \div per) + 1 * needs_remainder
                 passes ==
                      [k \in 1..num_passes |->
                          LET c == spp_per_pass_i(count, per, num_passes, k - 1)
                          IN  Pass(c, WMul(cells, W(c)), per)]
             IN  IF \A k \in 1..num_passes : SeedAccepts(s, passes[k].wavefront_size)
                 THEN [err |-> "none", result |-> passes]
                 ELSE [err |-> "TypeError", result |-> <<>>]

\* prepare (lines 163-167).
prepare(s, n) == IF s.kind = "nlos" THEN prepare_nlos(s, n) ELSE prepare_los(s, n)

Prepare(n) ==
    /\ sensor # NoSensor
    /\ spp' = n
    /\ prepare_result' = prepare(sensor, n).result
    /\ err' = prepare(sensor, n).err
    /\ call' = Call("prepare", NoneArg, NoSize, FALSE, FALSE, NoBatch)
    /\ ret' = NoRet /\ oob' = FALSE /\ ndev' = 0
    /\ UNCHANGED <<block, fptoui, nput, log, samples, pending, origin, sensor>>

\* ------------------------------------------------------------ SpecPrepare
\* The driver preparing renders of one sensor: films of 900 cells to 2^32
\* cells, a filter with or without a border, sampled or not, and any number
\* of prepare calls with spp from 0 to a few passes' worth. The sensor's
\* sampler has a seed of either kind.
PrepareCrops == {<<30, 30>>, <<1024, 1024>>, <<1022, 1024>>, <<32768, 32768>>,
                 <<32768, 65536>>, <<46341, 46341>>, <<65535, 65536>>,
                 <<65536, 65536>>}
Sensors ==
    {[kind |-> k, crop_size |-> c, sample_border |-> b, border_size |-> r,
      sample_count |-> n, seed_uint32 |-> u] :
        k \in {"los", "nlos"}, c \in PrepareCrops, b \in BOOLEAN, r \in {0, 1},
        n \in {1, 4}, u \in BOOLEAN}
\* The spp of one pass, of one more sample, and of two passes and a rest.
PrepareSpps(s) ==
    LET per == spp_per_pass(FilmCells(s))
    IN {0, 1, 2, 3, 5}
         \cup (IF per > 5 /\ per < 8192 THEN {per - 1, per, per + 1, 2 * per + 1}
               ELSE {})

InitPrepare ==
    /\ Constructed(<<2>>, BlockChannels, KernelArg(BoxFilter), "saturate", 0)
    /\ log = <<>> /\ samples = <<>> /\ pending = {} /\ origin = <<>>
    /\ sensor \in Sensors
    /\ spp = 0
    /\ prepare_result = <<>>

PrepareLos == sensor.kind = "los" /\ \E n \in PrepareSpps(sensor) : Prepare(n)
PrepareNlos == sensor.kind = "nlos" /\ \E n \in PrepareSpps(sensor) : Prepare(n)

NextPrepare == PrepareLos \/ PrepareNlos

SpecPrepare == InitPrepare /\ [][NextPrepare]_vars

\* ============================================================ claims
\* What the claims read off a state.
Done == (1..NumSamples) \ pending
AllBox == \A j \in 1..Dims : m_filter[j] = BoxFilter
\* The sample lies in the logical window [0, m_size) on every axis.
InWindow(s) == \A j \in 1..Dims : s.pos[j] >= 0 /\ s.pos[j] < m_size[j] * Scale
\* The sum over all cells of channel k (from 1) of a flat array.
ChannelSum(array, k) ==
    SeqSum([c \in 1..(Len(array) \div m_channel_count) |->
               array[(c - 1) * m_channel_count + k]])
Developed == call.op = "develop" /\ ~call.raw
PutCalled == call.op = "put_"

\* The array after the samples ids, put one per call in increasing order.
RECURSIVE OneByOne(_, _)
OneByOne(array, ids) ==
    IF ids = {} THEN array
    ELSE LET i == CHOOSE x \in ids : \A y \in ids : y <= x
         IN Eager(OneByOne(array, ids \ {i}),
                  LAMBDA before :
                      put_(CurrentGeo, before, m_weights, <<samples[i]>>).array)

\* C1: whatever the order in which the samples were put and however they were
\* split into put_ calls, the buffer is the one that putting the same samples
\* one by one in a fixed order gives: no scatter-add is lost.
C1_OrderIndependent == m_data.array = OneByOne(origin, Done)

\* C1 witness: all samples are put, the last call held two active samples at
\* one position, and they reached the buffer.
C1_Witness ==
    /\ pending = {} /\ PutCalled /\ Len(call.batch) >= 2
    /\ call.batch[1].active /\ call.batch[2].active
    /\ call.batch[1].pos = call.batch[2].pos
    /\ InWindow(call.batch[1])
    /\ m_data.array # origin

\* The sum of channel k over the active samples put so far, and what the
\* puts added to the sum over all cells of channel k (buffer entries count
\* 1/WScale^N).
PutSum(k) ==
    SeqSum([i \in 1..NumSamples |->
               IF i \in Done /\ samples[i].active THEN samples[i].value[k] ELSE 0])
Conserved ==
    \A k \in 1..m_channel_count :
        ChannelSum(m_data.array, k) - ChannelSum(origin, k)
            = Pow(WScale, Dims) * PutSum(k)
\* The cell ceil(coord - 0.5) of the sample, coord = p - 0.5 being its
\* coordinate in a block without border or offset, lies in [0, extent) on
\* every axis: 0 < p <= m_size.
LandsInBounds(s) ==
    \A j \in 1..Dims :
        LET cell == Ceil(s.pos[j] - Half - Half, Scale)
        IN cell >= 0 /\ cell < m_size[j]

\* C2 as claimed: with a box filter on every axis and every active sample in
\* the window [0, m_size), the sum over all cells of each channel (the weight
\* channel included, whose inputs are 1) is the sum of that channel over the
\* active samples put so far.
C2_Conservation ==
    (AllBox /\ \A i \in Done : samples[i].active => InWindow(samples[i]))
        => Conserved

\* C2 amended: the same sums, when every active sample lands in bounds by the
\* rounding of the box path: its cell ceil(coord - 0.5) lies in [0, extent)
\* on every axis, that is 0 < p <= m_size instead of 0 <= p < m_size.
C2_ConservationOfLanded ==
    (AllBox /\ \A i \in Done : samples[i].active => LandsInBounds(samples[i]))
        => Conserved

\* C2 witness: box filters, all samples put, at least two of them active and
\* all of those landing in bounds, one at the upper edge of the window and
\* one at a cell centre.
C2_Witness ==
    /\ AllBox /\ pending = {}
    /\ \A i \in Done : samples[i].active /\ LandsInBounds(samples[i])
    /\ \E i \in Done : ~InWindow(samples[i])
    /\ \E i \in Done : InWindow(samples[i])
    /\ m_data.array # origin

\* A box-path put of an active sample on the lower edge of the window, which
\* left the buffer as it was.
LowerEdgeDropped ==
    /\ AllBox /\ PutCalled /\ Len(call.batch) = 1 /\ call.batch[1].active
    /\ InWindow(call.batch[1]) /\ ~LandsInBounds(call.batch[1])
    /\ m_data.array = origin

\* C9: put_ returns the mask it was given, and a put_ whose samples are all
\* inactive leaves the buffer as it was.
C9_InactiveNoOp ==
    [][(call'.op = "put_")
         => /\ ret'.kind = "mask"
            /\ ret'.array = [l \in 1..Len(call'.batch) |-> call'.batch[l].active]
            /\ (\A l \in 1..Len(call'.batch) : ~call'.batch[l].active)
                 => m_data' = m_data]_vars

\* C9 witness: a put_ of several samples, all inactive, one of them in the window.
C9_Witness ==
    /\ PutCalled /\ Len(call.batch) >= 2
    /\ \A l \in 1..Len(call.batch) : ~call.batch[l].active
    /\ \E l \in 1..Len(call.batch) : InWindow(call.batch[l])

\* The source cell (flat, from 0) of output cell o (flat, from 0) of a
\* non-raw develop: the crop starts m_original_border_size into every axis.
OutCells(r) == SeqProd(SubSeq(r.shape, 1, Len(r.shape) - 1))
OutChannels(r) == r.shape[Len(r.shape)]
SourceCell(o) ==
    LET at == Unflatten(o, SubSeq(ret.shape, 1, Dims))
    IN Flatten([j \in 1..Dims |->
                   at[j] + CropStart(m_data.shape[j], m_original_border_size[j])],
               SubSeq(m_data.shape, 1, Dims))
\* Channel k (from 1) of cell c (from 0) of the buffer; its weight is the last one.
CellChannel(c, k) == m_data.array[c * m_channel_count + k]
CellWeight(c) == CellChannel(c, m_channel_count)

\* C3: after a non-raw develop, every reported cell whose weight channel (the
\* last one) in the buffer is 0 shows exactly 0 (no NaN, no Inf) in each
\* output channel.
C3_ZeroWeightZero ==
    Developed =>
        \A o \in 0..(OutCells(ret) - 1) :
            CellWeight(SourceCell(o)) = 0 =>
                \A k \in 1..OutChannels(ret) :
                    ret.array[o * OutChannels(ret) + k] = FracZero

\* C4: a non-raw develop removes m_original_border_size[j] cells from both
\* ends of every axis j of the buffer and what is left has the shape m_size.
C4_CropToDimensions ==
    Developed =>
        \A j \in 1..Dims :
            /\ ret.shape[j] = m_data.shape[j] - 2 * m_original_border_size[j]
            /\ ret.shape[j] = m_size[j]

\* C5: a non-raw develop reports channel_count - 1 channels per cell, each
\* the cell's channel divided by the cell's own last (weight) channel, 0
\* where that weight is not positive.
C5_DividesByOwnWeight ==
    Developed =>
        /\ OutChannels(ret) = m_channel_count - 1
        /\ \A o \in 0..(OutCells(ret) - 1), k \in 1..(m_channel_count - 1) :
              ret.array[o * (m_channel_count - 1) + k]
                = MaskedQuotient(CellChannel(SourceCell(o), k), CellWeight(SourceCell(o)))

\* The sample of the end-to-end example: position (1.5, 2.5), time bin 1,
\* value 2.0, alpha 1.0 (and weight 1.0).
E2ESample ==
    [pos |-> <<Scale + Half, 2 * Scale + Half, Scale + Half>>,
     value |-> <<2, 1, 1>>, active |-> TRUE]
\* Cell (1, 2, 1) of dimensions [4, 4, 3], flat and from 0.
E2ECell == Flatten(<<1, 2, 1>>, E2ESize)

\* C6: the block [4, 4, 3] with channels value, alpha, weight and box
\* filters, after that one sample: develop reports value 2 and alpha 1 at cell
\* (1, 2, 1) and 0 at every other cell.
C6_EndToEnd ==
    (Developed /\ log = <<E2ESample>>) =>
        /\ ret.shape = E2ESize \o <<2>>
        /\ ret.array = [x \in 1..(2 * SeqProd(E2ESize)) |->
                           IF x = 2 * E2ECell + 1 THEN <<2, 1>>
                           ELSE IF x = 2 * E2ECell + 2 THEN <<1, 1>>
                           ELSE FracZero]

\* No filter, or a list whose length is neither 1 nor the number of axes.
BadFilterArg(arg, N) ==
    \/ arg.tag = "none"
    \/ arg.tag = "list" /\ Len(arg.fs) \notin {1, N}
\* Exactly one filter: a bare kernel or a list of length 1.
OneFilter(arg) == arg.tag = "kernel" \/ (arg.tag = "list" /\ Len(arg.fs) = 1)
Broadcast(arg, N) == [j \in 1..N |-> arg.fs[1]]

\* C7: with no filter or a list of a length that is neither 1 nor the number
\* of axes, __init__ raises before a buffer exists, and configure_filter raises
\* and leaves the borders, the border offset, the filters and the buffer as
\* they were.
C7_BadFilterRaises ==
    /\ []((call.op = "__init__" /\ BadFilterArg(call.filter, Dims))
             => (err = "NameError" /\ m_data = NoTensor))
    /\ [][(call'.op = "configure_filter" /\ BadFilterArg(call'.filter, Dims))
             => /\ err' = "NameError"
                /\ UNCHANGED <<m_border_size, m_border_offset,
                               m_original_border_size, m_filter, m_data>>]_vars

\* C7 witness: a configure_filter that raised on a block whose border had
\* been shrunk before.
C7_Witness ==
    /\ call.op = "configure_filter" /\ BadFilterArg(call.filter, Dims)
    /\ err = "NameError"
    /\ \E j \in 1..Dims : WLess(W(0), m_border_offset[j])

\* C8 as claimed: exactly one filter, bare or in a list of length 1, is
\* accepted and used on every axis.
C8_OneFilterBroadcast ==
    (call.op \in {"__init__", "configure_filter"} /\ OneFilter(call.filter))
        => (err = "none" /\ m_filter = Broadcast(call.filter, Dims))

\* C8 amended: a bare kernel is accepted and used on every axis; a list of
\* length 1 is accepted on a block of one axis and raises on a block of more.
C8_BareKernelBroadcast ==
    (call.op \in {"__init__", "configure_filter"} /\ OneFilter(call.filter))
        => IF call.filter.tag = "kernel" \/ Dims = 1
           THEN err = "none" /\ m_filter = Broadcast(call.filter, Dims)
           ELSE err = "NameError"

\* C8 witness: a bare kernel given to a block of two axes.
C8_Witness ==
    /\ call.op = "configure_filter" /\ call.filter.tag = "kernel"
    /\ Dims = 2 /\ err = "none"
    /\ m_filter = <<call.filter.fs[1], call.filter.fs[1]>>

\* C10: develop changes neither the buffer nor the borders nor the border
\* offset; develop(raw=True) returns the buffer as it is; a develop right after
\* a develop of the same kind returns the same.
C10_DevelopPureRead ==
    [][(call'.op = "develop")
         => /\ UNCHANGED <<m_data, m_border_size, m_border_offset,
                           m_original_border_size>>
            /\ call'.raw => (ret'.shape = m_data.shape /\ ret'.array = m_data.array)
            /\ (call.op = "develop" /\ call.raw = call'.raw) => ret' = ret]_vars

\* C10 witness: two non-raw develops in a row on a buffer a put_ has filled.
C10_Witness ==
    /\ Developed /\ ndev = 2 /\ nput > 0
    /\ \E i \in 1..Len(m_data.array) : m_data.array[i] > 0

\* The last successful configure_filter asked for a border narrower than the
\* first one on some axis and wider on none.
Shrunk ==
    /\ \A j \in 1..Dims : m_border_size[j] <= m_original_border_size[j]
    /\ \E j \in 1..Dims : m_border_size[j] < m_original_border_size[j]
\* The buffer has the shape the first configuration allocated.
AsAllocated ==
    m_data.shape = [j \in 1..Dims |-> m_size[j] + 2 * m_original_border_size[j]]
                      \o <<m_channel_count>>
BoxPath == ~WidePath(filter_radius)
\* The buffer cell (flat, from 0) that develop crops out as logical cell
\* floor(p), and the one of logical cell ceil(p) - 1.
FloorCell(s) ==
    Flatten([j \in 1..Dims |-> Floor(s.pos[j], Scale) + m_original_border_size[j]],
            SubSeq(m_data.shape, 1, Dims))
LowerCell(s) ==
    Flatten([j \in 1..Dims |-> Ceil(s.pos[j], Scale) - 1 + m_original_border_size[j]],
            SubSeq(m_data.shape, 1, Dims))
\* put_ of the one sample s added one unit of weight to the cell.
WeightAdded(cell) ==
    m_data'.array[cell * m_channel_count + m_channel_count]
        = m_data.array[cell * m_channel_count + m_channel_count] + Pow(WScale, Dims)
\* p + max_border_width - 0.5 on every axis.
ShiftedCoord(s) ==
    \A j \in 1..Dims :
        BufferPos(CurrentGeo, s)[j]
            = W(s.pos[j] + m_original_border_size[j] * Scale - Half)

\* C11 as claimed: configure_filter leaves the buffer; after a shrink a sample
\* at p has buffer coordinate p + max_border_width - 0.5, and on the box path an
\* active sample in the window adds its weight to logical cell floor(p).
C11_ShrinkKeepsWindow ==
    [][/\ (call'.op = "configure_filter") => m_data' = m_data
       /\ (call'.op = "put_" /\ Shrunk /\ AsAllocated)
            => \A l \in 1..Len(call'.batch) :
                  /\ ShiftedCoord(call'.batch[l])
                  /\ (BoxPath /\ call'.batch[l].active /\ InWindow(call'.batch[l]))
                       => WeightAdded(FloorCell(call'.batch[l]))]_vars

\* C11 amended: the same, the cell being logical cell ceil(p) - 1: floor(p)
\* unless p is an integer, and then the cell below it.
C11_ShrinkKeepsLowerCell ==
    [][/\ (call'.op = "configure_filter") => m_data' = m_data
       /\ (call'.op = "put_" /\ Shrunk /\ AsAllocated)
            => \A l \in 1..Len(call'.batch) :
                  /\ ShiftedCoord(call'.batch[l])
                  /\ (BoxPath /\ call'.batch[l].active /\ InWindow(call'.batch[l]))
                       => WeightAdded(LowerCell(call'.batch[l]))]_vars

\* C11 witness: a block first configured with a tent and then with the box,
\* its buffer still the first one, after the put_ of an active sample on a
\* cell edge inside the window.
C11_Witness ==
    /\ PutCalled /\ Shrunk /\ AsAllocated /\ BoxPath
    /\ \E j \in 1..Dims : WLess(W(0), m_border_offset[j])
    /\ call.batch[1].active /\ InWindow(call.batch[1])
    /\ \E j \in 1..Dims : call.batch[1].pos[j] % Scale = 0
    /\ m_data.array[LowerCell(call.batch[1]) * m_channel_count + m_channel_count] > 0

\* The cells within the radius of buffer coordinate pos on axis j:
\* ceil(pos - radius) .. floor(pos + radius).
SupportLo(pos, j) == WCeil(WSub(pos[j], W(filter_radius[j])), Scale)
SupportHi(pos, j) == WFloor(WAdd(pos[j], W(filter_radius[j])), Scale)
\* On some axis no cell of the padded buffer is within the radius of s.
SupportOutside(s) ==
    LET pos == BufferPos(CurrentGeo, s)
    IN \E j \in 1..Dims :
          \/ WLess(SupportHi(pos, j), W(0))
          \/ WLess(W(PutSize(CurrentGeo)[j] - 1), SupportLo(pos, j))

\* C12: a put_ whose samples all have their filter support entirely outside
\* the padded buffer raises nothing and leaves every buffer cell as it was.
C12_SilentMasking ==
    [][(call'.op = "put_"
          /\ \A l \in 1..Len(call'.batch) : SupportOutside(call'.batch[l]))
         => (err' = "none" /\ m_data' = m_data)]_vars

\* C13: after every successful configure_filter, on every axis the current
\* border is at most m_original_border_size (which, being one of the borders
\* requested, is then the largest ever requested) and m_border_offset is
\* m_original_border_size - m_border_size.
C13_BorderInvariant ==
    Alive =>
        \A j \in 1..Dims :
            /\ m_border_size[j] <= m_original_border_size[j]
            /\ m_border_offset[j] = W(m_original_border_size[j] - m_border_size[j])

\* C14: while m_size stays, the buffer keeps the shape of the first
\* allocation, m_size + 2 * m_original_border_size per axis and
\* m_channel_count channels.
C14_BufferSizeFixed == Alive => AsAllocated

\* C15: the successful configure_filter that follows a set_size to another
\* size leaves a buffer allocated for the new size and the new border, with
\* m_original_border_size the border of the new filters and m_border_offset 0.
C15_ResizeReallocates ==
    [][(call.op = "set_size" /\ call'.op = "configure_filter" /\ err' = "none")
         => /\ m_data' = clear(m_size', m_border_size', m_border_size', FALSE,
                               m_channel_count')
            /\ m_original_border_size' = m_border_size'
            /\ m_border_offset' = WSeq(Zeros(Dims))]_vars

AllZero(array) == \A i \in 1..Len(array) : array[i] = 0
\* The scratch table is reset: one zero entry per tap of every axis.
WeightsReset ==
    /\ Len(m_weights') = SeqSum(TapCounts([m_filter |-> m_filter',
                                           filter_radius |-> filter_radius']))
    /\ \A i \in 1..Len(m_weights') : m_weights'[i] = <<0>>

\* C16 as claimed: after every successful configure_filter every buffer cell
\* is zero and the scratch table is reset to the sum of the tap counts.
C16_ConfigureClears ==
    [][(call'.op = "configure_filter" /\ err' = "none")
         => (AllZero(m_data'.array) /\ WeightsReset)]_vars

\* C16 amended: every successful configure_filter resets the scratch table to
\* the sum of the tap counts and leaves the buffer cells as they were; the
\* buffer is zero after construction and after clear.
C16_ConfigureResetsWeights ==
    /\ [](call.op \in {"__init__", "clear"} => AllZero(m_data.array))
    /\ [][(call'.op = "configure_filter" /\ err' = "none")
            => (m_data' = m_data /\ WeightsReset)]_vars

\* C16 witness: a successful configure_filter to a narrower filter on a block
\* whose buffer a put_ has filled.
C16_Witness ==
    /\ call.op = "configure_filter" /\ err = "none"
    /\ ~AllZero(m_data.array)
    /\ AsAllocated /\ Shrunk

\* The buffer after one sample s is added to the cell idx (per axis, from 0)
\* when it is active and idx lies in [0, extent) on every axis, and the
\* buffer as it was otherwise.
BoxExpected(idx, s) ==
    LET size == PutSize(CurrentGeo)
        cell == Flatten([j \in 1..Dims |-> WInt(idx[j])], size)
    IN IF s.active /\ \A j \in 1..Dims :
                          WLeq(W(0), idx[j]) /\ WLess(idx[j], W(size[j]))
       THEN [i \in 1..Len(m_data.array) |->
               IF i > cell * m_channel_count /\ i <= (cell + 1) * m_channel_count
               THEN m_data.array[i]
                      + s.value[i - cell * m_channel_count] * Pow(WScale, Dims)
               ELSE m_data.array[i]]
       ELSE m_data.array
RoundHalfUp(s) ==
    [j \in 1..Dims |-> WFloor(WAdd(BufferPos(CurrentGeo, s)[j], W(Half)), Scale)]
RoundHalfDown(s) ==
    [j \in 1..Dims |-> WCeil(WSub(BufferPos(CurrentGeo, s)[j], W(Half)), Scale)]
\* The buffer coordinate of s is exactly halfway between two cells on axis j.
Halfway(s, j) == WSub(BufferPos(CurrentGeo, s)[j], W(Half)).low % Scale = 0

\* C17 as claimed: on the box path the sample goes to cell floor(coord + 0.5)
\* per axis, and is added iff it is active and that cell is in [0, extent) on
\* every axis.
C17_BoxRoundsHalfUp ==
    [][(call'.op = "put_" /\ BoxPath /\ Len(call'.batch) = 1)
         => m_data'.array = BoxExpected(RoundHalfUp(call'.batch[1]), call'.batch[1])]_vars

\* C17 amended: the cell is ceil(coord - 0.5) per axis: floor(coord + 0.5)
\* except for a coordinate exactly halfway between two cells, which goes to
\* the lower one.
C17_BoxRoundsHalfDown ==
    [][(call'.op = "put_" /\ BoxPath /\ Len(call'.batch) = 1)
         => m_data'.array = BoxExpected(RoundHalfDown(call'.batch[1]), call'.batch[1])]_vars

\* C17 witness: a box-path put_ of an active sample halfway between two cells
\* of the buffer on one axis and not on another, which was added.
C17_Witness ==
    /\ PutCalled /\ BoxPath /\ Dims = 2 /\ call.batch[1].active
    /\ Halfway(call.batch[1], 1) /\ ~Halfway(call.batch[1], 2)
    /\ ~AllZero(m_data.array)

\* The index tuples of the Cartesian product of [0, n[j]).
TapTuples(n) ==
    {t \in [1..Len(n) -> 0..(SeqSum(n))] : \A j \in 1..Len(n) : t[j] < n[j]}

\* C18: on the general path the loop over idxs ends after prod(n[j])
\* iterations and visits every index tuple of the product of [0, n[j])
\* exactly once.
C18_CounterVisitsAll ==
    (PutCalled /\ ~BoxPath) =>
        LET counts == TapCounts(CurrentGeo)
            visited == TapSeq(Zeros(Dims), counts)
        IN /\ \A j \in 1..Dims : counts[j] >= 1
           /\ Len(visited) = SeqProd(counts)
           /\ \A t \in TapTuples(counts) :
                 Cardinality({k \in 1..Len(visited) :
                                \A j \in 1..Dims : visited[k][j] = t[j]}) = 1

\* C18 witness: a general-path put_ on two axes with different tap counts,
\* both above 1.
C18_Witness ==
    /\ PutCalled /\ ~BoxPath /\ Dims = 2
    /\ TapCounts(CurrentGeo)[1] > 1 /\ TapCounts(CurrentGeo)[2] > 1
    /\ TapCounts(CurrentGeo)[1] # TapCounts(CurrentGeo)[2]
    /\ ~AllZero(m_data.array)

\* The taps idxs[j] + lo[j], idxs[j] < n[j], that put_ enumerates on axis j
\* for s.
TapCells(s, j) ==
    LET lo == Lo(CurrentGeo, BufferPos(CurrentGeo, s))
    IN {Add32(W(i), lo[j]) : i \in 0..(TapCounts(CurrentGeo)[j] - 1)}
\* The cells of axis j of the padded buffer.
RangeCells(j) == {W(c) : c \in 0..(PutSize(CurrentGeo)[j] - 1)}
InRange(c, j) == c \in RangeCells(j)
InSupport(c, pos, j) == WLeq(SupportLo(pos, j), c) /\ WLeq(c, SupportHi(pos, j))
\* Buffer coordinate plus radius of s on axis j, counting 1/Scale.
UpperEnd(s, j) == WAdd(BufferPos(CurrentGeo, s)[j], W(filter_radius[j]))

\* C19 as claimed: on every axis the enumerated taps hold every in-range cell
\* of ceil(coord - radius) .. floor(coord + radius).
C19_TapsCoverSupport ==
    (PutCalled /\ ~BoxPath) =>
        \A l \in 1..Len(call.batch), j \in 1..Dims :
            LET pos == BufferPos(CurrentGeo, call.batch[l])
            IN \A c \in RangeCells(j) :
                  InSupport(c, pos, j) => c \in TapCells(call.batch[l], j)

\* C19 amended: the enumerated taps hold every in-range cell c with
\* coord - radius <= c < coord + radius; the cell at exactly coord + radius
\* need not be among them.
C19_TapsCoverOpenSupport ==
    (PutCalled /\ ~BoxPath) =>
        \A l \in 1..Len(call.batch), j \in 1..Dims :
            LET pos == BufferPos(CurrentGeo, call.batch[l])
            IN \A c \in RangeCells(j) :
                  (InSupport(c, pos, j)
                     /\ WLess(WMul(c, W(Scale)), UpperEnd(call.batch[l], j)))
                      => c \in TapCells(call.batch[l], j)

\* C19 witness: a general-path put_ of an active sample whose coordinate lies
\* exactly on a cell index, with the cells at both ends of its support in
\* range, which changed the buffer.
C19_Witness ==
    /\ PutCalled /\ ~BoxPath /\ call.batch[1].active
    /\ \E j \in 1..Dims :
          LET pos == BufferPos(CurrentGeo, call.batch[1])
          IN /\ pos[j].low % Scale = 0
             /\ WMul(SupportLo(pos, j), W(Scale)) = WSub(pos[j], W(filter_radius[j]))
             /\ InRange(SupportLo(pos, j), j) /\ InRange(SupportHi(pos, j), j)
    /\ ~AllZero(m_data.array)

\* C20: no put_ issues an enabled scatter-add whose flat index lies outside
\* m_data.array.
C20_ScattersInBounds == PutCalled => ~oob

\* What the claim about prepare reads off a state.
Prepared == call.op = "prepare"
Cells == FilmCells(sensor)
PassCounts == [k \in 1..Len(prepare_result) |-> prepare_result[k].sample_count]
SeededWithPass ==
    \A k \in 1..Len(prepare_result) :
        prepare_result[k].wavefront_size
            = WMul(Cells, W(prepare_result[k].sample_count))
SplitsSpp ==
    (sensor.kind = "nlos" /\ err = "none")
        => SeqSum(PassCounts) = sample_count(sensor, spp)
\* The wavefront the LOS request asks for.
Requested == WMul(Cells, W(sample_count(sensor, spp)))

\* C21: after prepare, every sampler of the returned list was seeded with a
\* wavefront size, the film cells (sampled border included) times the samples
\* per pixel of its pass, strictly below 2^32; on the NLOS path the sample
\* counts of the passes sum to the requested spp; on the LOS path a request
\* that does not fit raises.
C21_PassesBelowIndexSpace ==
    Prepared =>
        /\ SeededWithPass
        /\ \A k \in 1..Len(prepare_result) :
              WLess(prepare_result[k].wavefront_size, IndexSpace)
        /\ SplitsSpp
        /\ (sensor.kind = "los" /\ WLeq(IndexSpace, Requested)) => err # "none"

\* What holds of prepare instead: the NLOS passes are seeded below 2^32 and
\* sum to the requested spp, the LOS pass is seeded with at most 2^32 and a
\* LOS request above 2^32 raises.
PassesAtMostIndexSpace ==
    Prepared =>
        /\ SeededWithPass
        /\ SplitsSpp
        /\ \A k \in 1..Len(prepare_result) :
              IF sensor.kind = "nlos"
              THEN WLess(prepare_result[k].wavefront_size, IndexSpace)
              ELSE WLeq(prepare_result[k].wavefront_size, IndexSpace)
        /\ (sensor.kind = "los" /\ WLess(IndexSpace, Requested)) => err # "none"
\* A LOS pass seeded with exactly 2^32 by a seed that takes any integer.
LosSeededWithIndexSpace ==
    /\ Prepared /\ sensor.kind = "los" /\ err = "none"
    /\ prepare_result[1].wavefront_size = IndexSpace
\* The same request refused by a seed that takes a 32-bit unsigned integer:
\* it passed the test of line 73 and the seed raised.
LosRefusedAtIndexSpace ==
    /\ Prepared /\ sensor.kind = "los" /\ Requested = IndexSpace
    /\ err = "TypeError" /\ prepare_result = <<>>
\* An NLOS request split in three passes or more, the first of them as large
\* as the index space allows and the last one holding the rest.
NlosSplitInPasses ==
    /\ Prepared /\ sensor.kind = "nlos" /\ err = "none"
    /\ Len(prepare_result) >= 3
    /\ prepare_result[Len(prepare_result)].sample_count < prepare_result[1].sample_count
    /\ WLeq(IndexSpace, WAdd(prepare_result[1].wavefront_size, Cells))
    /\ SeqSum(PassCounts) = spp
====
